---- MODULE Spec2Model ----
(***************************************************************************)
(* A model of neuralmagicML/utils/helpers.py (bucket_iterable,             *)
(* interpolate, interpolated_integral, convert_to_bool, create_dirs,       *)
(* create_unique_dir) and of the argument validation and layer             *)
(* construction of tensorflow/models/classification/mnist.py.              *)
(*                                                                         *)
(* cur   the most recent call: its function, arguments and outcome         *)
(* prev  the call before it                                                *)
(* fs    the file system the path helpers act on: path -> kind             *)
(* pc    the position of a running mnist_net call                          *)
(* graph the layers the running mnist_net call has constructed             *)
(***************************************************************************)
EXTENDS Integers, Sequences, FiniteSets, Bags, TLC

VARIABLES cur, prev, fs, pc, graph

vars == <<cur, prev, fs, pc, graph>>

NoCall == [fn |-> "none"]

\* An empty file system.
NoFiles == <<>>

(***************************************************************************)
(* Numbers.  Python's float results are kept exact as rationals [n, d]     *)
(* with d > 0; round() is Python 3's round-half-to-even.                   *)
(***************************************************************************)
Rat(n, d) == IF d < 0 THEN [n |-> -n, d |-> -d] ELSE [n |-> n, d |-> d]

RatEq(a, b) == a.n * b.d = b.n * a.d

\* round(n / d) for d > 0: to the nearest integer, a tie to the even one.
PyRound(n, d) ==
    LET f == n \div d
        r == n - f * d
    IN  IF 2 * r < d THEN f
        ELSE IF 2 * r > d THEN f + 1
        ELSE IF f % 2 = 0 THEN f ELSE f + 1

Min(a, b) == IF a <= b THEN a ELSE b

Max(a, b) == IF a >= b THEN a ELSE b

\* s[from..] and s[..to] as Python slices them: out-of-range ends saturate.
SliceTo(s, k) == SubSeq(s, 1, Min(Max(k, 0), Len(s)))

SliceFrom(s, k) == SubSeq(s, Min(Max(k, 0), Len(s)) + 1, Len(s))

RECURSIVE SeqsUpTo(_, _)
SeqsUpTo(S, n) ==
    IF n = 0 THEN {<<>>}
    ELSE LET shorter == SeqsUpTo(S, n - 1)
         IN  shorter \cup {Append(s, x) : s \in {t \in shorter : Len(t) = n - 1}, x \in S}

(***************************************************************************)
(* list.sort(key=..., reverse=...): a stable sort.  Before(a, b) says that *)
(* a sorts strictly before b; equal keys keep their input order.           *)
(***************************************************************************)
RECURSIVE InsertSorted(_, _, _, _)
InsertSorted(order, i, keys, reverse) ==
    IF order = <<>> THEN <<i>>
    ELSE LET last == order[Len(order)]
         IN  IF (IF reverse THEN keys[i] > keys[last] ELSE keys[i] < keys[last])
             THEN Append(InsertSorted(SubSeq(order, 1, Len(order) - 1), i, keys, reverse),
                         last)
             ELSE Append(order, i)

\* The order of the indexes of keys after the sort.
RECURSIVE SortOrder(_, _, _)
SortOrder(keys, n, reverse) ==
    IF n = 0 THEN <<>>
    ELSE InsertSorted(SortOrder(keys, n - 1, reverse), n, keys, reverse)

ListSort(s, keys, reverse) ==
    LET order == SortOrder(keys, Len(s), reverse)
    IN  [i \in 1..Len(s) |-> s[order[i]]]

(***************************************************************************)
(* bucket_iterable                                                         *)
(***************************************************************************)
MaxVal == 1
MaxLen == 4
MaxBuckets == 5

\* edge_percent values, as exact fractions: -0.25, 0.0, 0.05, 0.25, 0.5, 1.5.
EdgePercents ==
    {Rat(-1, 4), Rat(0, 1), Rat(1, 20), Rat(1, 4), Rat(1, 2), Rat(3, 2)}

BucketVals == SeqsUpTo(0..MaxVal, MaxLen)

SortValList(val, sort_highest) ==
    ListSort(val, val, sort_highest)

EdgeCount(edge_percent, len) == PyRound(edge_percent.n * len, edge_percent.d)

BucketsCountFloor(len, num_buckets) == len \div num_buckets

BucketsCount(len, num_buckets) == PyRound(len, num_buckets)

AddValsNoRemainder(val_list, bucket, num_buckets, buckets_count) ==
    SliceTo(val_list, buckets_count)

AddVals(val_list, bucket, num_buckets, buckets_count) ==
    IF bucket < num_buckets - 1 THEN SliceTo(val_list, buckets_count) ELSE val_list

RestVals(val_list, bucket, num_buckets, buckets_count) ==
    IF bucket < num_buckets - 1 THEN SliceFrom(val_list, buckets_count) ELSE <<>>

Labelled(bucket, vals) == [i \in 1..Len(vals) |-> <<bucket, vals[i]>>]

RECURSIVE BucketLoop(_, _, _, _, _)
BucketLoop(val_list, bucket, num_buckets, buckets_count, bucketed_values) ==
    IF bucket >= num_buckets THEN bucketed_values
    ELSE BucketLoop(RestVals(val_list, bucket, num_buckets, buckets_count),
                    bucket + 1, num_buckets, buckets_count,
                    bucketed_values
                        \o Labelled(bucket,
                                    AddVals(val_list, bucket, num_buckets, buckets_count)))

bucket_iterable(val, num_buckets, edge_percent, sort_highest) ==
    LET sorted     == SortValList(val, sort_highest)
        edge_count == EdgeCount(edge_percent, Len(sorted))
        edge       == IF edge_count > 0 THEN Labelled(-1, SliceTo(sorted, edge_count))
                      ELSE <<>>
        val_list   == IF edge_count > 0 THEN SliceFrom(sorted, edge_count) ELSE sorted
    IN  BucketLoop(val_list, 0, num_buckets,
                   BucketsCount(Len(val_list), num_buckets), edge)

\* A pure helper is called once per behaviour: the arguments are drawn by the
\* initial state and the call fills in what it returns or raises.
InitPure(calls) ==
    /\ cur \in calls
    /\ pc = "call"
    /\ prev = NoCall
    /\ fs = NoFiles
    /\ graph = <<>>

Returned(fn) == pc = "return" /\ cur.fn = fn

BucketCalls ==
    [fn : {"bucket_iterable"}, val : BucketVals, num_buckets : 1..MaxBuckets,
     edge_percent : EdgePercents, sort_highest : BOOLEAN]

BucketIterable ==
    /\ pc = "call"
    /\ cur.fn = "bucket_iterable"
    /\ cur' = [fn |-> cur.fn, val |-> cur.val, num_buckets |-> cur.num_buckets,
               edge_percent |-> cur.edge_percent, sort_highest |-> cur.sort_highest,
               ret |-> bucket_iterable(cur.val, cur.num_buckets, cur.edge_percent,
                                       cur.sort_highest)]
    /\ pc' = "return"
    /\ UNCHANGED <<prev, fs, graph>>

NextBucket == BucketIterable

SpecBucket == InitPure(BucketCalls) /\ [][NextBucket]_vars

BucketCalled == Returned("bucket_iterable")

SeqBag(s) == [x \in {s[i] : i \in DOMAIN s} |-> Cardinality({i \in DOMAIN s : s[i] = x})]

RetValues == [i \in DOMAIN cur.ret |-> cur.ret[i][2]]

RetLabels == [i \in DOMAIN cur.ret |-> cur.ret[i][1]]

LabelCount(b) == Cardinality({i \in DOMAIN cur.ret : cur.ret[i][1] = b})

\* C1: bucket_iterable returns exactly one (bucket, value) pair per input
\* element: the output is as long as the input and the multiset of its values
\* is the multiset of the input's values.
C1_OnePairPerElement ==
    BucketCalled =>
        /\ Len(cur.ret) = Len(cur.val)
        /\ SeqBag(RetValues) = SeqBag(cur.val)

C1_Witness ==
    /\ BucketCalled
    /\ Len(cur.val) = 3
    /\ cur.num_buckets = 5
    /\ cur.val[1] = cur.val[2]
    /\ cur.val[2] # cur.val[3]
    /\ LabelCount(-1) = 0

\* The -1 labels, the size of each bucket and the order of the output that
\* the claim and its amendment share.
EdgeLabelled ==
    LET n == Len(cur.val)
        e == PyRound(cur.edge_percent.n * n, cur.edge_percent.d)
    IN  IF e <= 0 THEN 0 ELSE Min(e, n)

OutputInSortOrder ==
    /\ \A i \in 1..(Len(cur.ret) - 1) :
          /\ RetLabels[i] <= RetLabels[i + 1]
          /\ IF cur.sort_highest THEN RetValues[i] >= RetValues[i + 1]
                                 ELSE RetValues[i] <= RetValues[i + 1]
    /\ \A i \in DOMAIN cur.ret : RetLabels[i] \in {-1} \cup (0..(cur.num_buckets - 1))
    /\ LabelCount(-1) = EdgeLabelled

\* C2 as stated: every bucket 0..num_buckets-2 holds round(m / num_buckets)
\* values, m the number of values left after the edge bucket, and the last
\* bucket holds the rest.
C2_EqualBuckets ==
    BucketCalled =>
        LET m  == Len(cur.val) - EdgeLabelled
            bc == PyRound(m, cur.num_buckets)
        IN  /\ OutputInSortOrder
            /\ \A b \in 0..(cur.num_buckets - 2) : LabelCount(b) = bc
            /\ LabelCount(cur.num_buckets - 1) = m - (cur.num_buckets - 1) * bc

\* C2, amended: bucket b of 0..num_buckets-2 holds round(m / num_buckets)
\* values or, when fewer are left after the buckets before it, those that are
\* left; the last bucket holds what remains after all of them.
C2_BucketsUntilExhausted ==
    BucketCalled =>
        LET m  == Len(cur.val) - EdgeLabelled
            bc == PyRound(m, cur.num_buckets)
        IN  /\ OutputInSortOrder
            /\ \A b \in 0..(cur.num_buckets - 2) :
                  LabelCount(b) = Min(bc, Max(m - b * bc, 0))
            /\ LabelCount(cur.num_buckets - 1) = Max(m - (cur.num_buckets - 1) * bc, 0)

C2_Witness ==
    /\ BucketCalled
    /\ cur.num_buckets = 5
    /\ Len(cur.val) = 4
    /\ LabelCount(-1) = 1
    /\ LabelCount(2) = 1
    /\ LabelCount(3) = 0

(***************************************************************************)
(* interpolate.  A call either returns a value or raises; y_per is kept    *)
(* exact: a rational for the linear and cubic curves, and the term         *)
(* 1 - b ** (1 / 3) with b rational for inverse_cubic.  Python evaluates a *)
(* negative float to the power 1 / 3 to a complex number, which does not   *)
(* order against a float.                                                  *)
(***************************************************************************)
MaxCoord == 3
MaxY == 1

INTERPOLATION_FUNCS == <<"linear", "cubic", "inverse_cubic">>

InterFuncNames == {"linear", "cubic", "inverse_cubic", "quadratic", "Linear"}

Range(s) == {s[i] : i \in DOMAIN s}

Raise(exc, info) == [kind |-> "raise", exc |-> exc, info |-> info]

Return(src, val) == [kind |-> "return", src |-> src, val |-> val]

Exact(v) == [form |-> "exact", v |-> v]

XPer(x_cur, x0, x1) == Rat(x_cur - x0, x1 - x0)

YPer(x_per, inter_func) ==
    LET n == x_per.n
        d == x_per.d
    IN  CASE inter_func = "linear" -> [form |-> "rat", n |-> n, d |-> d]
          [] inter_func = "cubic" ->
                [form |-> "rat", n |-> d * d * d - (d - n) * (d - n) * (d - n),
                 d |-> d * d * d]
          [] inter_func = "inverse_cubic" ->
                IF d - n < 0 THEN [form |-> "complex"]
                ELSE [form |-> "one_minus_cbrt", n |-> d - n, d |-> d]
          [] OTHER -> [form |-> "unsupported"]

\* y_per <= 0.0 + sys.float_info.epsilon.  epsilon is 2 ** -52; the smallest
\* positive y_per of the coordinates modelled is far above it, so the
\* comparison is the one with 0.
BelowZeroStrict(y_per) ==
    IF y_per.form = "rat" THEN y_per.n < 0 ELSE y_per.n > y_per.d

BelowZero(y_per) ==
    IF y_per.form = "rat" THEN y_per.n <= 0 ELSE y_per.n >= y_per.d

\* y_per >= 1.0 - sys.float_info.epsilon, likewise the comparison with 1.
AboveOne(y_per) ==
    IF y_per.form = "rat" THEN y_per.n >= y_per.d ELSE y_per.n <= 0

\* y_per * (y1 - y0) + y0
Scaled(y_per, y0, y1) ==
    IF y_per.form = "rat"
    THEN [form |-> "rat", n |-> y_per.n * (y1 - y0) + y0 * y_per.d, d |-> y_per.d]
    ELSE [form |-> "scaled", y_per |-> y_per, times |-> y1 - y0, plus |-> y0]

UnsupportedInterFunc(inter_func) ==
    Raise("ValueError", [value |-> inter_func, allowed |-> INTERPOLATION_FUNCS])

Project(x_cur, x0, x1, y0, y1, inter_func) ==
    IF x1 - x0 = 0 THEN Raise("ZeroDivisionError", <<>>)
    ELSE LET y_per == YPer(XPer(x_cur, x0, x1), inter_func)
         IN  IF y_per.form = "unsupported"
             THEN Raise("ValueError", [value |-> inter_func])
             ELSE IF y_per.form = "complex" THEN Raise("TypeError", <<>>)
             ELSE IF BelowZero(y_per) THEN Return("y0", Exact(y0))
             ELSE IF AboveOne(y_per) THEN Return("y1", Exact(y1))
             ELSE Return("scaled", Scaled(y_per, y0, y1))

interpolateDivideFirst(x_cur, x0, x1, y0, y1, inter_func) ==
    IF x1 - x0 = 0 THEN Raise("ZeroDivisionError", <<>>)
    ELSE IF inter_func \notin Range(INTERPOLATION_FUNCS)
         THEN UnsupportedInterFunc(inter_func)
         ELSE Project(x_cur, x0, x1, y0, y1, inter_func)

interpolate(x_cur, x0, x1, y0, y1, inter_func) ==
    IF inter_func \notin Range(INTERPOLATION_FUNCS)
    THEN UnsupportedInterFunc(inter_func)
    ELSE Project(x_cur, x0, x1, y0, y1, inter_func)

InterpolateCalls ==
    [fn : {"interpolate"}, x_cur : 0..MaxCoord, x0 : 0..MaxCoord, x1 : 0..MaxCoord,
     y0 : 0..MaxY, y1 : 0..MaxY, inter_func : InterFuncNames]

Interpolate ==
    /\ pc = "call"
    /\ cur.fn = "interpolate"
    /\ cur' = [fn |-> cur.fn, x_cur |-> cur.x_cur, x0 |-> cur.x0, x1 |-> cur.x1,
               y0 |-> cur.y0, y1 |-> cur.y1, inter_func |-> cur.inter_func,
               ret |-> interpolate(cur.x_cur, cur.x0, cur.x1, cur.y0, cur.y1,
                                   cur.inter_func)]
    /\ pc' = "return"
    /\ UNCHANGED <<prev, fs, graph>>

NextInterpolate == Interpolate

SpecInterpolate == InitPure(InterpolateCalls) /\ [][NextInterpolate]_vars

Interpolated == Returned("interpolate")

\* C3: with a supported curve and x0 < x1, interpolate returns y0 for every
\* x_cur <= x0 and y1 for every x_cur >= x1, and raises nothing.
C3_ClampsOutOfRange ==
    (/\ Interpolated
     /\ cur.inter_func \in Range(INTERPOLATION_FUNCS)
     /\ cur.x0 < cur.x1) =>
        /\ cur.x_cur <= cur.x0 => cur.ret = Return("y0", Exact(cur.y0))
        /\ cur.x_cur >= cur.x1 => cur.ret = Return("y1", Exact(cur.y1))

\* C4: with the linear curve and x0 # x1, interpolate returns y0 itself at
\* x_cur = x0 and y1 itself at x_cur = x1.
C4_LinearEndpoints ==
    (/\ Interpolated
     /\ cur.inter_func = "linear"
     /\ cur.x0 # cur.x1) =>
        /\ cur.x_cur = cur.x0 => cur.ret = Return("y0", Exact(cur.y0))
        /\ cur.x_cur = cur.x1 => cur.ret = Return("y1", Exact(cur.y1))

C4_Witness ==
    /\ Interpolated
    /\ cur.inter_func = "linear"
    /\ cur.x1 < cur.x0
    /\ cur.x_cur = cur.x1
    /\ cur.y0 # cur.y1
    /\ cur.ret.kind = "return"

\* C5: an inter_func that is not linear, cubic or inverse_cubic always ends in
\* the ValueError naming the value and the allowed names, also when x0 = x1;
\* the division by zero is reached only with a supported name.
C5_UnsupportedNameFirst ==
    Interpolated =>
        /\ cur.inter_func \notin {"linear", "cubic", "inverse_cubic"} =>
              cur.ret = Raise("ValueError",
                              [value |-> cur.inter_func,
                               allowed |-> <<"linear", "cubic", "inverse_cubic">>])
        /\ (cur.ret.kind = "raise" /\ cur.ret.exc = "ZeroDivisionError") =>
              cur.inter_func \in {"linear", "cubic", "inverse_cubic"}

C5_Witness ==
    /\ Interpolated
    /\ cur.inter_func = "quadratic"
    /\ cur.x0 = cur.x1
    /\ cur.ret.kind = "raise"

(***************************************************************************)
(* interpolated_integral.  A measurement is <<x, y>>; the result is kept   *)
(* exact as a rational.                                                    *)
(***************************************************************************)
MaxSamples == 3
MaxSampleX == 2
MaxSampleY == 1

Measurements == SeqsUpTo((0..MaxSampleX) \X (0..MaxSampleY), MaxSamples)

Unsorted(measurements) == measurements

\* measurements.sort(key=lambda v: v[0])
SortMeasurements(measurements) ==
    ListSort(measurements, [i \in DOMAIN measurements |-> measurements[i][1]], FALSE)

\* y_val * x_dist + (y_next - y_val) * x_dist / 2.0
Area(x_val, y_val, x_next, y_next) ==
    LET x_dist == x_next - x_val
    IN  Rat(2 * y_val * x_dist + (y_next - y_val) * x_dist, 2)

RatAdd(a, b) == Rat(a.n * b.d + b.n * a.d, a.d * b.d)

RECURSIVE IntegralLoop(_, _, _)
IntegralLoop(measurements, index, integral) ==
    IF index > Len(measurements) THEN integral
    ELSE IF index >= Len(measurements)
         THEN IntegralLoop(measurements, index + 1, integral)
         ELSE IntegralLoop(measurements, index + 1,
                           RatAdd(integral,
                                  Area(measurements[index][1], measurements[index][2],
                                       measurements[index + 1][1],
                                       measurements[index + 1][2])))

interpolated_integral(measurements) ==
    IF Len(measurements) < 1 THEN Rat(0, 1)
    ELSE IF Len(measurements) = 1 THEN Rat(measurements[1][2], 1)
    ELSE IntegralLoop(SortMeasurements(measurements), 1, Rat(0, 1))

IntegralCalls == [fn : {"interpolated_integral"}, measurements : Measurements]

InterpolatedIntegral ==
    /\ pc = "call"
    /\ cur.fn = "interpolated_integral"
    /\ cur' = [fn |-> cur.fn, measurements |-> cur.measurements,
               ret |-> interpolated_integral(cur.measurements)]
    /\ pc' = "return"
    /\ UNCHANGED <<prev, fs, graph>>

NextIntegral == InterpolatedIntegral

SpecIntegral == InitPure(IntegralCalls) /\ [][NextIntegral]_vars

Integrated == Returned("interpolated_integral")

\* The place of sample i in ascending-x order, samples of equal x in their
\* input order.
Rank(m, i) ==
    1 + Cardinality({j \in DOMAIN m : m[j][1] < m[i][1] \/ (m[j][1] = m[i][1] /\ j < i)})

AtRank(m, k) == m[CHOOSE i \in DOMAIN m : Rank(m, i) = k]

\* Twice the sum, over the consecutive pairs from place k on, of
\* (x_next - x) * (y + y_next) / 2.
RECURSIVE TwiceTrapezoids(_, _)
TwiceTrapezoids(m, k) ==
    IF k >= Len(m) THEN 0
    ELSE (AtRank(m, k + 1)[1] - AtRank(m, k)[1]) * (AtRank(m, k)[2] + AtRank(m, k + 1)[2])
         + TwiceTrapezoids(m, k + 1)

Permuted(m, p) == [i \in DOMAIN m |-> m[p[i]]]

DistinctX(m) == \A i, j \in DOMAIN m : m[i][1] = m[j][1] => i = j

IntegralValue ==
    LET m == cur.measurements
    IN  /\ Len(m) = 0 => RatEq(cur.ret, Rat(0, 1))
        /\ Len(m) = 1 => RatEq(cur.ret, Rat(m[1][2], 1))
        /\ Len(m) >= 2 => RatEq(cur.ret, Rat(TwiceTrapezoids(m, 1), 2))

\* C6 as stated: 0 for no sample, y for one, the sum of the trapezoids in
\* ascending-x order for more, and the same result for every permutation of
\* the samples.
C6_AnyPermutation ==
    Integrated =>
        /\ IntegralValue
        /\ \A p \in Permutations(DOMAIN cur.measurements) :
              RatEq(interpolated_integral(Permuted(cur.measurements, p)), cur.ret)

\* C6, amended: the trapezoids are summed in ascending-x order with samples
\* of equal x in their input order, and the result is the same for every
\* permutation of samples whose x values are pairwise distinct.
C6_DistinctXPermutation ==
    Integrated =>
        /\ IntegralValue
        /\ DistinctX(cur.measurements) =>
              \A p \in Permutations(DOMAIN cur.measurements) :
                  RatEq(interpolated_integral(Permuted(cur.measurements, p)), cur.ret)

C6_Witness ==
    /\ Integrated
    /\ cur.measurements = <<<<2, 0>>, <<0, 0>>, <<1, 1>>>>
    /\ RatEq(cur.ret, Rat(1, 1))

(***************************************************************************)
(* convert_to_bool.  A Python value is tagged with its type; a str is the  *)
(* sequence of its characters.                                             *)
(***************************************************************************)
MaxStrLen == 3
MaxInt == 5

StrChars == {"f", "F", "0", "t", "x"}

Word(chars) == [type |-> "str", chars |-> chars]

NamedStrs ==
    {<<"t", "r", "u", "e">>, <<"T", "r", "u", "e">>, <<"f", "a", "l", "s", "e">>,
     <<"F", "A", "L", "S", "E">>, <<"e", "l", "f">>, <<"1", "0">>, <<"1">>,
     <<"n", "o">>, <<"o", "f", "f">>, <<"y", "e", "s">>}

PyValues ==
    {Word(c) : c \in SeqsUpTo(StrChars, MaxStrLen) \cup NamedStrs}
        \cup [type : {"int"}, v : (-1)..MaxInt]
        \cup [type : {"bool"}, v : BOOLEAN]
        \cup {[type |-> "NoneType"]}
        \cup [type : {"list"}, len : 0..1]

\* bool(val)
PyBool(val) ==
    CASE val.type = "str" -> Len(val.chars) > 0
      [] val.type = "int" -> val.v # 0
      [] val.type = "bool" -> val.v
      [] val.type = "NoneType" -> FALSE
      [] val.type = "list" -> val.len > 0

UpperCase == <<"A", "E", "F", "L", "O", "R", "S", "T", "U", "X", "Y", "N">>

LowerCase == <<"a", "e", "f", "l", "o", "r", "s", "t", "u", "x", "y", "n">>

\* str.lower()
Lower(chars) ==
    [i \in DOMAIN chars |->
        IF \E k \in DOMAIN UpperCase : UpperCase[k] = chars[i]
        THEN LowerCase[CHOOSE k \in DOMAIN UpperCase : UpperCase[k] = chars[i]]
        ELSE chars[i]]

\* c in s, for a one-character c
Contains(chars, c) == \E i \in DOMAIN chars : chars[i] = c

convert_to_bool(val) ==
    IF val.type # "str" THEN PyBool(val)
    ELSE /\ PyBool(val)
         /\ ~Contains(Lower(val.chars), "f")
         /\ ~Contains(Lower(val.chars), "0")

BoolCalls == [fn : {"convert_to_bool"}, val : PyValues]

ConvertToBool ==
    /\ pc = "call"
    /\ cur.fn = "convert_to_bool"
    /\ cur' = [fn |-> cur.fn, val |-> cur.val, ret |-> convert_to_bool(cur.val)]
    /\ pc' = "return"
    /\ UNCHANGED <<prev, fs, graph>>

NextBool == ConvertToBool

SpecBool == InitPure(BoolCalls) /\ [][NextBool]_vars

FalseStrs == {<<"0">>, <<"f", "a", "l", "s", "e">>, <<"f">>}

TrueStrs == {<<"t", "r", "u", "e">>, <<"t">>}

\* The strings whose logical value can be determined in some convention: the
\* logical words, in lower case, and the numerals.  The empty string is left
\* to its truthiness.
LogicalWords ==
    FalseStrs \cup TrueStrs
        \cup {<<>>, <<"n", "o">>, <<"n">>, <<"o", "f", "f">>, <<"o", "n">>,
              <<"y", "e", "s">>, <<"y">>}

Determinable(chars) ==
    \/ Lower(chars) \in LogicalWords
    \/ \A i \in DOMAIN chars : chars[i] \in {"0", "1"}

\* C9: convert_to_bool returns the truthiness of a value that is no string;
\* of a string, False for "0", "false", "f", True for "true", "t", and True
\* for every string whose logical value cannot be determined.
C9_FallsBackOnTrue ==
    Returned("convert_to_bool") =>
        /\ cur.val.type = "int" => (cur.ret <=> cur.val.v # 0)
        /\ cur.val.type = "NoneType" => ~cur.ret
        /\ cur.val.type = "str" =>
              /\ Lower(cur.val.chars) \in FalseStrs => ~cur.ret
              /\ Lower(cur.val.chars) \in TrueStrs => cur.ret
              /\ ~Determinable(cur.val.chars) => cur.ret

(***************************************************************************)
(* mnist_net.  The call validates act, then constructs the four            *)
(* convolutions of the blocks scope, the classifier and the logits; graph  *)
(* holds the layers constructed so far, in order.                          *)
(***************************************************************************)
MaxClasses == 10

PyNone == [type |-> "NoneType"]

Str(name) == [type |-> "str", name |-> name]

ActValues ==
    {PyNone, Str("relu"), Str("sigmoid"), Str("softmax"), Str("tanh"), Str("Softmax")}

\* act not in [None, "sigmoid", "softmax"]
ActRejected(act) == act \notin {PyNone, Str("sigmoid"), Str("softmax")}

Conv2d(name, in_chan, out_chan, kernel, stride) ==
    [op |-> "conv2d", name |-> name, in_chan |-> in_chan, out_chan |-> out_chan,
     kernel |-> kernel, stride |-> stride, padding |-> "SAME", act |-> "relu"]

Blocks ==
    <<Conv2d("conv0", 1, 16, 5, 1), Conv2d("conv1", 16, 32, 5, 2),
      Conv2d("conv2", 32, 64, 5, 1), Conv2d("conv3", 64, 128, 5, 2)>>

Classifier(num_classes) ==
    <<[op |-> "reduce_mean", axis |-> <<1, 2>>],
      [op |-> "reshape", shape |-> <<-1, 128>>],
      [op |-> "fc", name |-> "fc", in_chan |-> 128, out_chan |-> num_classes]>>

Logits(act) == <<[op |-> "activation", act |-> act]>>

MnistCalls == [fn : {"mnist_net"}, num_classes : 1..MaxClasses, act : ActValues]

MnistNetValidate ==
    /\ pc = "call"
    /\ cur.fn = "mnist_net"
    /\ IF ActRejected(cur.act)
       THEN /\ cur' = [fn |-> cur.fn, num_classes |-> cur.num_classes, act |-> cur.act,
                       ret |-> Raise("ValueError", [value |-> cur.act])]
            /\ pc' = "return"
       ELSE /\ pc' = "blocks"
            /\ UNCHANGED cur
    /\ UNCHANGED <<prev, fs, graph>>

MnistNetBlocks ==
    /\ pc = "blocks"
    /\ graph' = graph \o Blocks
    /\ pc' = "classifier"
    /\ UNCHANGED <<cur, prev, fs>>

MnistNetClassifier ==
    /\ pc = "classifier"
    /\ graph' = graph \o Classifier(cur.num_classes)
    /\ pc' = "logits"
    /\ UNCHANGED <<cur, prev, fs>>

MnistNetLogits ==
    /\ pc = "logits"
    /\ graph' = graph \o Logits(cur.act)
    /\ cur' = [fn |-> cur.fn, num_classes |-> cur.num_classes, act |-> cur.act,
               ret |-> Return("logits", Len(graph) + 1)]
    /\ pc' = "return"
    /\ UNCHANGED <<prev, fs>>

NextMnist ==
    \/ MnistNetValidate
    \/ MnistNetBlocks
    \/ MnistNetClassifier
    \/ MnistNetLogits

SpecMnist == InitPure(MnistCalls) /\ [][NextMnist]_vars

\* The final activations the docstring of mnist_net lists as supported.
DocumentedActs == {PyNone, Str("relu"), Str("sigmoid"), Str("softmax")}

\* C10: a call of mnist_net with act None, relu, sigmoid or softmax passes the
\* validation and builds the network; a call with any other act raises
\* ValueError before any layer is constructed.
C10_DocumentedActsAccepted ==
    (cur.fn = "mnist_net" /\ pc # "call") =>
        IF cur.act \in DocumentedActs
        THEN pc = "return" =>
                /\ cur.ret.kind = "return"
                /\ Len(graph) = 8
                /\ graph[8] = [op |-> "activation", act |-> cur.act]
        ELSE /\ pc = "return"
             /\ cur.ret.kind = "raise"
             /\ cur.ret.exc = "ValueError"
             /\ graph = <<>>

(***************************************************************************)
(* The path helpers.  A path is absolute or relative to the working        *)
(* directory and is a sequence of components; a component is a name and    *)
(* the digits of a numeric suffix (none: no suffix).  fs maps the absolute *)
(* paths that may hold something to "none", "dir" or "file"; the root is a *)
(* directory.                                                              *)
(***************************************************************************)
MaxSuffix == 1

Comp(name, digits) == [name |-> name, digits |-> digits]

RECURSIVE Digits(_)
Digits(n) == IF n < 10 THEN <<n>> ELSE Append(Digits(n \div 10), n % 10)

RECURSIVE ZeroPad(_, _)
ZeroPad(digits, width) ==
    IF Len(digits) >= width THEN digits ELSE ZeroPad(<<0>> \o digits, width)

\* "{:04d}".format(check_number), for check_number >= 0
Format04d(check_number) == ZeroPad(Digits(check_number), 4)

\* "{}-{:04d}".format(path, check_number): the suffix goes on the last component.
FormatPath(path, check_number) ==
    LET last == path.comps[Len(path.comps)]
    IN  [anchor |-> path.anchor,
         comps |-> SubSeq(path.comps, 1, Len(path.comps) - 1)
                       \o <<Comp(last.name, last.digits \o <<"-">> \o Format04d(check_number))>>]

Cwd == <<Comp("a", <<>>)>>

\* os.path.abspath(os.path.expanduser(path)): the absolute component sequence.
clean_path(path) == IF path.anchor = "rel" THEN Cwd \o path.comps ELSE path.comps

Suffixed(name, k) == Comp(name, <<"-">> \o Format04d(k))

FsPaths ==
    {<<Comp("a", <<>>)>>, <<Comp("a", <<>>), Comp("b", <<>>)>>}
        \cup {<<Suffixed("a", k)>> : k \in 0..MaxSuffix}

Parent(p) == SubSeq(p, 1, Len(p) - 1)

Kind(files, p) ==
    IF p = <<>> THEN "dir" ELSE IF p \in DOMAIN files THEN files[p] ELSE "none"

\* os.path.exists
Exists(files, p) == Kind(files, p) # "none"

\* The file systems there can be: whatever exists lies in a directory.
WellFormed(files) ==
    \A p \in DOMAIN files : files[p] # "none" => Kind(files, Parent(p)) = "dir"

FileSystems == {files \in [FsPaths -> {"none", "dir", "file"}] : WellFormed(files)}

\* os.mkdir(p): <<errno or "ok", the file system after>>
Mkdir(files, p) ==
    IF Kind(files, Parent(p)) = "file" THEN <<"ENOTDIR", files>>
    ELSE IF Kind(files, Parent(p)) = "none" THEN <<"ENOENT", files>>
    ELSE IF Exists(files, p) THEN <<"EEXIST", files>>
    ELSE <<"ok", [files EXCEPT ![p] = "dir"]>>

\* os.makedirs(p): the missing ancestors are made first, then p itself.
RECURSIVE Makedirs(_, _)
Makedirs(files, p) ==
    LET head  == Parent(p)
        above == IF head # <<>> /\ ~Exists(files, head) THEN Makedirs(files, head)
                 ELSE <<"ok", files>>
    IN  IF above[1] \notin {"ok", "EEXIST"} THEN above ELSE Mkdir(above[2], p)

\* except OSError as e: the errno values create_dirs does not re-raise
Swallowed == {"EEXIST"}

\* create_dirs(path): <<what the call returns or raises, the file system after>>
create_dirs(files, path) ==
    LET made == Makedirs(files, clean_path(path))
    IN  IF made[1] = "ok" \/ made[1] \in Swallowed
        THEN <<Return("None", <<>>), made[2]>>
        ELSE <<Raise("OSError", made[1]), made[2]>>

RECURSIVE create_unique_dir(_, _, _)
create_unique_dir(files, path, check_number) ==
    LET check_path == clean_path(FormatPath(path, check_number))
    IN  IF ~Exists(files, check_path) THEN check_path
        ELSE create_unique_dir(files, path, check_number + 1)

DirArgs ==
    {[anchor |-> "abs", comps |-> p] : p \in FsPaths}
        \cup {[anchor |-> "rel", comps |-> <<Comp("b", <<>>)>>]}

UniqueArgs ==
    {[anchor |-> "abs", comps |-> <<Comp("a", <<>>)>>],
     [anchor |-> "rel", comps |-> <<Comp("b", <<>>)>>]}

\* The path helpers are called any number of times, on any file system; pc and
\* graph belong to mnist_net and stay as they are.
Init ==
    /\ cur = NoCall
    /\ prev = NoCall
    /\ fs \in FileSystems
    /\ pc = "call"
    /\ graph = <<>>

CreateDirs ==
    \E path \in DirArgs :
        LET done == create_dirs(fs, path)
        IN  /\ cur' = [fn |-> "create_dirs", path |-> path, ret |-> done[1]]
            /\ prev' = cur
            /\ fs' = done[2]
            /\ UNCHANGED <<pc, graph>>

CreateUniqueDir ==
    \E path \in UniqueArgs, check_number \in 0..MaxSuffix :
        /\ cur' = [fn |-> "create_unique_dir", path |-> path,
                   check_number |-> check_number,
                   ret |-> Return("check_path", create_unique_dir(fs, path, check_number))]
        /\ prev' = cur
        /\ UNCHANGED <<fs, pc, graph>>

Next == CreateDirs \/ CreateUniqueDir

Spec == Init /\ [][Next]_vars

\* C7: two calls of create_unique_dir in a row with the same base path and the
\* default check_number return two distinct paths, neither of them a path
\* that exists.
C7_TwoCallsTwoPaths ==
    (/\ cur.fn = "create_unique_dir"
     /\ prev.fn = "create_unique_dir"
     /\ cur.path = prev.path
     /\ cur.check_number = 0
     /\ prev.check_number = 0) =>
        /\ cur.ret.val # prev.ret.val
        /\ ~Exists(fs, cur.ret.val)
        /\ ~Exists(fs, prev.ret.val)

\* C8: create_dirs on a directory that exists raises nothing and leaves the
\* file system as it was; after a call that returns normally the target is a
\* directory; every other failure, a target that exists and is no directory
\* included, reaches the caller.
C8_OnlyExistingDirSwallowed ==
    [][(cur'.fn = "create_dirs" /\ <<cur, prev, fs>>' # <<cur, prev, fs>>) =>
          LET target == clean_path(cur'.path)
          IN  /\ Kind(fs, target) = "dir" => (cur'.ret.kind = "return" /\ fs' = fs)
              /\ cur'.ret.kind = "return" => Kind(fs', target) = "dir"
              /\ Kind(fs, target) = "file" => cur'.ret.kind = "raise"
              /\ Kind(fs, Parent(target)) = "file" => cur'.ret.kind = "raise"]_vars

====
